---- MODULE Spec2Model ----
(***************************************************************************)
(* A model of etl_project.py: the stages extract_data, transform_data      *)
(* (with validate_data_types and validate_value_ranges), load_data and     *)
(* verify_data, and the driver etl_process that sequences them.            *)
(*                                                                         *)
(* Three specifications share the variables:                               *)
(*   SpecTransform  transform_data applied to one raw batch;               *)
(*   SpecStore      load_data and verify_data called in any order on one   *)
(*                  database file;                                         *)
(*   Spec           runs of etl_process, one after another, on one         *)
(*                  database file.                                         *)
(***************************************************************************)
EXTENDS Integers, Sequences, FiniteSets, TLC

VARIABLES
    pc,             \* position of the caller: see each specification
    requestsBound,  \* whether the global name `requests` resolves when extract_data runs
    data,           \* the raw batch: what extract_data returned / transform_data is given
    df,             \* the table transform_data returned / load_data is given
    gates,          \* the validators transform_data called, in call order
    store,          \* the persisted 'cryptos' table of crypto_data.db
    store0,         \* the persisted table when the current run or call began
    log,            \* the log entries of the current run or call, in order
    openConns,      \* connections opened and not closed
    stages,         \* the stage functions the current run has called, in order
    ret,            \* how the last stage function called ended
    transport,      \* the outcome the endpoint gives a GET during the current run
    connects,       \* the sqlite3.connect calls that returned a connection in the current run or call
    result,         \* whether load_data / verify_data did its work in the current run or call
    loads,          \* the tables the last two successful loads wrote, older first
    runs            \* the number of runs or calls started

vars == <<pc, requestsBound, data, df, gates, store, store0, log, openConns,
          stages, ret, transport, connects, result, loads, runs>>

(***************************************************************************)
(* Bounds of the model.                                                    *)
(***************************************************************************)
MaxRows == 2        \* rows in a raw batch or a table
MaxRuns == 2        \* runs of etl_process
MaxCalls == 2       \* direct calls of load_data and verify_data

(***************************************************************************)
(* Values.  A JSON value as Python decodes it is a type tag and a number:  *)
(* for "int", "float" and "bool" the number is the value, for "str" it     *)
(* names the string.  "null" is None / NaN, "absent" a key the dict lacks. *)
(***************************************************************************)
StrV(n)   == [t |-> "str",   v |-> n]
IntV(n)   == [t |-> "int",   v |-> n]
FloatV(n) == [t |-> "float", v |-> n]
BoolV(n)  == [t |-> "bool",  v |-> n]
Null      == [t |-> "null",  v |-> 0]
Absent    == [t |-> "absent", v |-> 0]

required_columns == <<"id", "symbol", "name", "current_price", "market_cap", "total_volume">>
canonical_columns == <<"ID", "Symbol", "Name", "Current_Price", "Market_Cap", "Total_Volume">>

\* The keys a raw record may carry: the six required ones and one the pipeline ignores.
RawKeys == {required_columns[i] : i \in 1..Len(required_columns)} \cup {"image"}
CanonKeys == {canonical_columns[i] : i \in 1..Len(canonical_columns)}

\* The record of the end-to-end scenario, with the extra key the API also sends.
BaseRow ==
    [id |-> StrV(1), symbol |-> StrV(2), name |-> StrV(3),
     current_price |-> IntV(50000), market_cap |-> IntV(1000000000),
     total_volume |-> IntV(500000), image |-> StrV(4)]

\* The same record with a price that is not positive.
ZeroPriceRow == [BaseRow EXCEPT !.current_price = IntV(0)]

\* One further deviation of a record: a key and the value it gets.
Deviations ==
       ({"id", "symbol", "name"} \X {IntV(7), Null, Absent})
  \cup ({"total_volume"} \X {StrV(9), Null, Absent, IntV(0), BoolV(1)})
  \cup ({"market_cap"} \X {StrV(9), Null, Absent, IntV(-5), IntV(0)})
  \cup ({"image"} \X {Absent})

RawRows ==
       {BaseRow, ZeroPriceRow}
  \cup {[b EXCEPT ![d[1]] = d[2]] : b \in {BaseRow, ZeroPriceRow}, d \in Deviations}
  \cup {[BaseRow EXCEPT !.current_price = p] : p \in {StrV(9), Null, Absent, FloatV(2), IntV(-5)}}
  \cup {[ZeroPriceRow EXCEPT !.id = Absent, !.market_cap = Null]}

Batches == UNION {[1..n -> RawRows] : n \in 0..MaxRows}

(***************************************************************************)
(* Log entries: level, message, and the columns the message names.         *)
(***************************************************************************)
Entry(level, msg, cols) == [level |-> level, msg |-> msg, cols |-> cols]

(***************************************************************************)
(* pd.DataFrame(data) of a list of dicts: the columns are the keys some    *)
(* row carries, and a row lacking a key holds NaN there.                    *)
(***************************************************************************)
DataFrame(d) ==
    [cols |-> {k \in RawKeys : \E i \in 1..Len(d) : d[i][k].t # "absent"},
     rows |-> [i \in 1..Len(d) |->
                 [k \in RawKeys |-> IF d[i][k].t = "absent" THEN Null ELSE d[i][k]]]]

isnull(x) == x.t = "null"

\* pd.DataFrame(): no rows, so .empty is true.
EmptyDF == <<>>

empty(t) == Len(t) = 0

\* df[required_columns] followed by the assignment to df.columns.
Renamed(frame) ==
    [i \in 1..Len(frame.rows) |->
        [c \in CanonKeys |->
            frame.rows[i][required_columns[
                CHOOSE j \in 1..Len(canonical_columns) : canonical_columns[j] = c]]]]

\* isinstance(x, expected_type) for the expected types of validate_data_types;
\* a Python bool is an int.
IsInstance(x, expected) ==
    IF expected = "str" THEN x.t = "str"
    ELSE x.t \in {"float", "int", "bool"}

expected_dtypes ==
    [ID |-> "str", Symbol |-> "str", Name |-> "str",
     Current_Price |-> "number", Market_Cap |-> "number", Total_Volume |-> "number"]

\* A variant of ColumnConforms with .any() for .all(): one conforming value is enough.
ColumnConformsAny(t, column) ==
    \E i \in 1..Len(t) : IsInstance(t[i][column], expected_dtypes[column])

\* Whether every value of a column has the column's expected type.
ColumnConforms(t, column) ==
    \A i \in 1..Len(t) : IsInstance(t[i][column], expected_dtypes[column])

\* validate_data_types: the first column, in dictionary order, with a value of
\* another type is logged and the answer is False.
validate_data_types(t) ==
    LET bad == {j \in 1..Len(canonical_columns) : ~ColumnConforms(t, canonical_columns[j])}
    IN  IF bad # {}
        THEN LET first == CHOOSE j \in bad : \A k \in bad : j <= k
             IN  [ok |-> FALSE,
                  log |-> <<Entry("ERROR", "Invalid data type in column",
                                  <<canonical_columns[first]>>)>>]
        ELSE [ok |-> TRUE, log |-> <<>>]

\* The rows selected by df[(df['Current_Price'] > 0) & (df['Market_Cap'] > 0)].
PositiveRows(t) ==
    {i \in 1..Len(t) : t[i]["Current_Price"].v > 0 /\ t[i]["Market_Cap"].v > 0}

\* validate_value_ranges: False when the selection above is not empty.
validate_value_ranges(t) ==
    IF PositiveRows(t) # {}
    THEN [ok |-> FALSE,
          log |-> <<Entry("ERROR", "Invalid values detected in 'Current_Price' or 'Market_Cap'",
                          <<>>)>>]
    ELSE [ok |-> TRUE, log |-> <<>>]

\* A variant of missing_columns without the isnull() test: only lacking columns count.
missing_columns_absent_only(frame) ==
    LET Lacks(col) == col \notin frame.cols
    IN  SelectSeq(required_columns, Lacks)

\* The required columns that are not columns of the frame or hold a null.
missing_columns(frame) ==
    LET Offends(col) ==
            \/ col \notin frame.cols
            \/ \E i \in 1..Len(frame.rows) : isnull(frame.rows[i][col])
    IN  SelectSeq(required_columns, Offends)

\* The handler of transform_data: the ValueError is logged as "Data error: ..." and
\* the result is pd.DataFrame().
DataError(logged, msg, cols, called) ==
    [df |-> EmptyDF,
     log |-> logged \o <<Entry("ERROR", msg, cols)>>,
     gates |-> called]

transform_data(d) ==
    IF Len(d) = 0
    THEN DataError(<<>>, "Data error: No data to transform!", <<>>, <<>>)
    ELSE
    LET frame == DataFrame(d)
        missing == missing_columns(frame)
    IN  IF missing # <<>>
        THEN DataError(<<Entry("ERROR", "Missing or null values found in columns", missing)>>,
                       "Data error: Missing or null values found in columns", missing, <<>>)
        ELSE
        LET t == Renamed(frame)
            types == validate_data_types(t)
        IN  IF ~types.ok
            THEN DataError(types.log, "Data error: Data type validation failed.", <<>>,
                           <<"validate_data_types">>)
            ELSE
            LET ranges == validate_value_ranges(t)
            IN  IF ~ranges.ok
                THEN DataError(ranges.log, "Data error: Value range validation failed.", <<>>,
                               <<"validate_data_types", "validate_value_ranges">>)
                ELSE [df |-> t,
                      log |-> <<Entry("INFO", "Data transformation successful.", <<>>)>>,
                      gates |-> <<"validate_data_types", "validate_value_ranges">>]

(***************************************************************************)
(* The persisted table.  The database file may hold no 'cryptos' table.    *)
(***************************************************************************)
NoTable == [exists |-> FALSE, rows |-> <<>>]
Table(rows) == [exists |-> TRUE, rows |-> rows]

\* How a stage function ended: it returned (printing `printed` on the way) or raised.
Returned(value, printed) == [kind |-> "return", value |-> value, exc |-> "", printed |-> printed]
Raised(exc) == [kind |-> "raise", value |-> "", exc |-> exc, printed |-> <<>>]
NotCalled == [kind |-> "none", value |-> "", exc |-> "", printed |-> <<>>]

(***************************************************************************)
(* extract_data.  The module imports logging, pandas and sqlite3 only, so  *)
(* `requests` resolves only if the environment binds the name; unbound,    *)
(* requests.get raises NameError, and so does the except clause naming     *)
(* requests.exceptions.RequestException: the NameError leaves the function. *)
(* A response is the outcome of the GET and the decoded body.              *)
(***************************************************************************)
TransportOutcomes == {"ok", "Timeout", "ConnectionError", "HTTPError"}

extract_data(bound, response) ==
    IF ~bound
    THEN [ret |-> Raised("NameError"), data |-> <<>>, log |-> <<>>]
    ELSE IF response.status = "ok"
    THEN [ret |-> Returned("data", <<>>), data |-> response.body,
          log |-> <<Entry("INFO", "Data extracted successfully from API.", <<>>)>>]
    ELSE [ret |-> Returned("[]", <<>>), data |-> <<>>,
          log |-> <<Entry("ERROR", "Error during the API request", <<response.status>>)>>]

(***************************************************************************)
(* Storage faults.  A fault is where sqlite3 raises sqlite3.Error during a *)
(* stage: at connect (no connection exists), or in the statement after the *)
(* connection is open.  A failed replace leaves the table as it was, or    *)
(* dropped, or recreated without rows.  A connection whose close() is      *)
(* skipped stays open unless the runtime finalises the object when the     *)
(* function returns: `reclaimed` says which.                               *)
(***************************************************************************)
LoadFaults == {"none", "connect", "write_kept", "write_dropped", "write_emptied"}
VerifyFaults == {"none", "connect", "read"}

\* The connections a stage leaves open when it skips conn.close().
Leaked(reclaimed) == IF reclaimed THEN 0 ELSE 1

\* A variant of to_sql_replace with if_exists='append': the rows are added to the table.
to_sql_append(t, st) == Table(st.rows \o t)

\* df.to_sql('cryptos', conn, if_exists='replace', index=False), completed.
to_sql_replace(t, st) == Table(t)

load_data(t, st, fault, reclaimed) ==
    IF empty(t)
    THEN [store |-> st, leaked |-> 0, opened |-> 0, ok |-> FALSE, ret |-> Returned("None", <<>>),
          log |-> <<Entry("ERROR", "Error found in the data to be loaded", <<>>)>>]
    ELSE IF fault = "connect"
    THEN [store |-> st, leaked |-> 0, opened |-> 0, ok |-> FALSE, ret |-> Returned("None", <<>>),
          log |-> <<Entry("ERROR", "Error during the upload of data in the DB", <<>>)>>]
    ELSE IF fault # "none"
    THEN [store |-> CASE fault = "write_kept" -> st
                      [] fault = "write_dropped" -> NoTable
                      [] OTHER -> Table(<<>>),
          leaked |-> Leaked(reclaimed), opened |-> 1, ok |-> FALSE,
          ret |-> Returned("None", <<>>),
          log |-> <<Entry("ERROR", "Error during the upload of data in the DB", <<>>)>>]
    ELSE [store |-> to_sql_replace(t, st), leaked |-> 0, opened |-> 1, ok |-> TRUE,
          ret |-> Returned("None", <<>>),
          log |-> <<Entry("INFO", "Data loaded into database successfully.", <<>>)>>]

\* SELECT * FROM cryptos LIMIT 5
SampleLimit == 5
Sample(rows) == SubSeq(rows, 1, IF Len(rows) < SampleLimit THEN Len(rows) ELSE SampleLimit)

\* The read fails when the fault says so and whenever the table does not exist.
verify_data(st, fault, reclaimed) ==
    IF fault = "connect"
    THEN [leaked |-> 0, opened |-> 0, ok |-> FALSE, ret |-> Returned("None", <<>>),
          log |-> <<Entry("ERROR", "Error reading the data", <<>>)>>]
    ELSE IF fault = "read" \/ ~st.exists
    THEN [leaked |-> Leaked(reclaimed), opened |-> 1, ok |-> FALSE,
          ret |-> Returned("None", <<>>),
          log |-> <<Entry("ERROR", "Error reading the data", <<>>)>>]
    ELSE [leaked |-> 0, opened |-> 1, ok |-> TRUE, ret |-> Returned("None", Sample(st.rows)),
          log |-> <<Entry("INFO", "Data verification successful.", <<>>)>>]

(***************************************************************************)
(* What the variables hold before anything is called.                      *)
(***************************************************************************)
NoResult == [load_data |-> "not called", verify_data |-> "not called"]

\* The canonical row transform_data makes of one raw record.
Canon(r) == Renamed(DataFrame(<<r>>))[1]

\* A row an earlier snapshot left in the table: another coin.
OldRow == Canon([BaseRow EXCEPT !.id = StrV(5), !.symbol = StrV(6), !.name = StrV(8)])

\* The database file is new, or holds an earlier snapshot.
InitialStores == {NoTable, Table(<<OldRow>>)}

\* The last two tables loaded, once t is loaded after them.
Remember(history, t) ==
    IF Len(history) < 2 THEN Append(history, t) ELSE <<history[2], t>>

(***************************************************************************)
(* SpecTransform: transform_data is called once on a raw batch.            *)
(***************************************************************************)
InitTransform ==
    /\ pc = "call"
    /\ requestsBound = FALSE
    /\ data \in Batches
    /\ df = EmptyDF
    /\ gates = <<>>
    /\ store = NoTable
    /\ store0 = NoTable
    /\ log = <<>>
    /\ openConns = 0
    /\ stages = <<>>
    /\ ret = NotCalled
    /\ transport = "ok"
    /\ connects = 0
    /\ result = NoResult
    /\ loads = <<>>
    /\ runs = 0

TransformCall ==
    /\ pc = "call"
    /\ LET r == transform_data(data)
       IN  /\ df' = r.df
           /\ log' = r.log
           /\ gates' = r.gates
    /\ ret' = Returned("DataFrame", <<>>)
    /\ stages' = <<"transform_data">>
    /\ pc' = "returned"
    /\ runs' = runs + 1
    /\ UNCHANGED <<requestsBound, data, store, store0, openConns, transport, connects,
                   result, loads>>

NextTransform == TransformCall

SpecTransform == InitTransform /\ [][NextTransform]_vars

(***************************************************************************)
(* SpecStore: load_data and verify_data are called, in any order, by one   *)
(* process on one database file.                                           *)
(***************************************************************************)
CanonRows == {Canon(BaseRow), Canon(ZeroPriceRow)}

Tables == UNION {[1..n -> CanonRows] : n \in 0..MaxRows}

InitStore ==
    /\ pc = "call"
    /\ requestsBound = FALSE
    /\ data = <<>>
    /\ df = EmptyDF
    /\ gates = <<>>
    /\ store \in InitialStores
    /\ store0 = store
    /\ log = <<>>
    /\ openConns = 0
    /\ stages = <<>>
    /\ ret = NotCalled
    /\ transport = "ok"
    /\ connects = 0
    /\ result = NoResult
    /\ loads = <<>>
    /\ runs = 0

CallLoad ==
    /\ runs < MaxCalls
    /\ \E t \in Tables, fault \in LoadFaults, reclaimed \in BOOLEAN :
         LET r == load_data(t, store, fault, reclaimed)
         IN  /\ df' = t
             /\ store' = r.store
             /\ log' = r.log
             /\ ret' = r.ret
             /\ openConns' = openConns + r.leaked
             /\ connects' = r.opened
             /\ result' = [NoResult EXCEPT !.load_data = IF r.ok THEN "ok" ELSE "failed"]
             /\ loads' = IF r.ok THEN Remember(loads, t) ELSE loads
    /\ store0' = store
    /\ stages' = <<"load_data">>
    /\ pc' = "returned"
    /\ runs' = runs + 1
    /\ UNCHANGED <<requestsBound, data, gates, transport>>

CallVerify ==
    /\ runs < MaxCalls
    /\ \E fault \in VerifyFaults, reclaimed \in BOOLEAN :
         LET r == verify_data(store, fault, reclaimed)
         IN  /\ log' = r.log
             /\ ret' = r.ret
             /\ openConns' = openConns + r.leaked
             /\ connects' = r.opened
             /\ result' = [NoResult EXCEPT !.verify_data = IF r.ok THEN "ok" ELSE "failed"]
    /\ store0' = store
    /\ stages' = <<"verify_data">>
    /\ pc' = "returned"
    /\ runs' = runs + 1
    /\ UNCHANGED <<requestsBound, data, df, gates, store, transport, loads>>

NextStore == CallLoad \/ CallVerify

SpecStore == InitStore /\ [][NextStore]_vars

(***************************************************************************)
(* Spec: etl_process, run again and again (each run a process of its own)  *)
(* on one database file.  pc is the statement of etl_process to run next;  *)
(* "crashed" is a run an exception ended.                                  *)
(***************************************************************************)
ApiRows ==
    {BaseRow, ZeroPriceRow,
     [BaseRow EXCEPT !.market_cap = IntV(-5)],
     [BaseRow EXCEPT !.id = Null],
     [BaseRow EXCEPT !.total_volume = StrV(9)]}

ApiBatches == UNION {[1..n -> ApiRows] : n \in 0..MaxRows}

\* The module itself never binds `requests` (lines 1-3 import logging, pandas and
\* sqlite3): run as it stands, requestsBound is FALSE.  The name is looked up when
\* extract_data runs, in the module's globals and then in builtins, so an
\* environment that supplies it there makes it TRUE; both are explored, and only the
\* second reaches the stages after extract_data.
Init ==
    /\ pc = "idle"
    /\ requestsBound \in BOOLEAN
    /\ data = <<>>
    /\ df = EmptyDF
    /\ gates = <<>>
    /\ store \in InitialStores
    /\ store0 = store
    /\ log = <<>>
    /\ openConns = 0
    /\ stages = <<>>
    /\ ret = NotCalled
    /\ transport = "ok"
    /\ connects = 0
    /\ result = NoResult
    /\ loads = <<>>
    /\ runs = 0

\* Line 144 and the test of line 145, with the else branch of lines 153-154.
EtlExtract ==
    /\ pc \in {"idle", "done", "crashed"}
    /\ runs < MaxRuns
    /\ \E status \in TransportOutcomes, body \in ApiBatches :
         LET r == extract_data(requestsBound, [status |-> status, body |-> body])
         IN  /\ transport' = status
             /\ ret' = r.ret
             /\ data' = r.data
             /\ IF r.ret.kind = "raise"
                THEN /\ pc' = "crashed"
                     /\ log' = r.log
                ELSE IF Len(r.data) > 0
                THEN /\ pc' = "transform"
                     /\ log' = r.log
                ELSE /\ pc' = "done"
                     /\ log' = r.log \o
                           <<Entry("ERROR", "It was not possible to extract data.", <<>>)>>
    /\ runs' = runs + 1
    /\ stages' = <<"extract_data">>
    /\ store0' = store
    /\ df' = EmptyDF
    /\ gates' = <<>>
    /\ openConns' = 0
    /\ connects' = 0
    /\ result' = NoResult
    /\ UNCHANGED <<requestsBound, store, loads>>

\* Line 146 and the test of line 147, with the else branch of lines 151-152.
EtlTransform ==
    /\ pc = "transform"
    /\ LET r == transform_data(data)
       IN  /\ df' = r.df
           /\ gates' = r.gates
           /\ IF ~empty(r.df)
              THEN /\ pc' = "load"
                   /\ log' = log \o r.log
              ELSE /\ pc' = "done"
                   /\ log' = log \o r.log \o <<Entry("WARNING", "No data to upload.", <<>>)>>
    /\ ret' = Returned("DataFrame", <<>>)
    /\ stages' = Append(stages, "transform_data")
    /\ UNCHANGED <<requestsBound, data, store, store0, openConns, transport, connects,
                   result, loads, runs>>

\* Lines 148-149: load_data(df), then the milestone is logged whatever load_data did.
EtlLoad ==
    /\ pc = "load"
    /\ \E fault \in LoadFaults, reclaimed \in BOOLEAN :
         LET r == load_data(df, store, fault, reclaimed)
         IN  /\ store' = r.store
             /\ log' = log \o r.log \o <<Entry("INFO", "ETL process completed.", <<>>)>>
             /\ ret' = r.ret
             /\ openConns' = openConns + r.leaked
             /\ connects' = connects + r.opened
             /\ result' = [result EXCEPT !.load_data = IF r.ok THEN "ok" ELSE "failed"]
             /\ loads' = IF r.ok THEN Remember(loads, df) ELSE loads
    /\ stages' = Append(stages, "load_data")
    /\ pc' = "verify"
    /\ UNCHANGED <<requestsBound, data, df, gates, store0, transport, runs>>

\* Line 150.
EtlVerify ==
    /\ pc = "verify"
    /\ \E fault \in VerifyFaults, reclaimed \in BOOLEAN :
         LET r == verify_data(store, fault, reclaimed)
         IN  /\ log' = log \o r.log
             /\ ret' = r.ret
             /\ openConns' = openConns + r.leaked
             /\ connects' = connects + r.opened
             /\ result' = [result EXCEPT !.verify_data = IF r.ok THEN "ok" ELSE "failed"]
    /\ stages' = Append(stages, "verify_data")
    /\ pc' = "done"
    /\ UNCHANGED <<requestsBound, data, df, gates, store, store0, transport, loads, runs>>

Next == EtlExtract \/ EtlTransform \/ EtlLoad \/ EtlVerify

Spec == Init /\ [][Next]_vars

(***************************************************************************)
(* The vocabulary of the claims, stated on the raw batch and on the run,   *)
(* not by the validators.                                                  *)
(***************************************************************************)
StringFields == {"id", "symbol", "name"}
NumericFields == {"current_price", "market_cap", "total_volume"}
RequiredFields == StringFields \cup NumericFields

\* The type tags of a number; Python's isinstance(x, (float, int)) also holds of a bool.
NumericTags == {"int", "float", "bool"}

Present(d, f) == \A i \in 1..Len(d) : d[i][f].t \notin {"absent", "null"}
AllPresent(d) == \A f \in RequiredFields : Present(d, f)
WellTyped(d) ==
    \A i \in 1..Len(d) :
        /\ \A f \in StringFields : d[i][f].t = "str"
        /\ \A f \in NumericFields : d[i][f].t \in NumericTags
IsNumber(x) == x.t \in {"int", "float"}
AllPositive(d) ==
    \A i \in 1..Len(d) : \A f \in NumericFields : IsNumber(d[i][f]) /\ d[i][f].v > 0
OutOfRange(r) == r["current_price"].v <= 0 \/ r["market_cap"].v <= 0

\* The required fields absent from the whole batch or null in some row.
Offending(d) ==
    {f \in RequiredFields :
        \/ \A i \in 1..Len(d) : d[i][f].t = "absent"
        \/ \E i \in 1..Len(d) : d[i][f].t = "null"}

\* The table holds the six renamed values of each raw record, in the batch's order.
SameRows(t, d) ==
    /\ Len(t) = Len(d)
    /\ \A i \in 1..Len(t) :
        /\ DOMAIN t[i] = CanonKeys
        /\ \A j \in 1..Len(required_columns) :
               t[i][canonical_columns[j]] = d[i][required_columns[j]]

Called(stage) == \E i \in 1..Len(stages) : stages[i] = stage
Logged(level, msg) == \E i \in 1..Len(log) : log[i].level = level /\ log[i].msg = msg
IsPrefix(s, t) == Len(s) <= Len(t) /\ \A i \in 1..Len(s) : s[i] = t[i]
TransformReturned == pc = "returned" /\ stages = <<"transform_data">>

(***************************************************************************)
(* C1: a non-empty batch whose rows all carry the six fields, non-null,    *)
(* with string id/symbol/name and strictly positive numbers, is returned   *)
(* as a non-empty table of the six renamed columns, same rows, same order. *)
(* The code rejects such a batch: validate_value_ranges answers False when *)
(* a row IS in range.                                                      *)
(***************************************************************************)
C1_ValidBatchIsTransformed ==
    (TransformReturned /\ Len(data) > 0 /\ AllPresent(data) /\ WellTyped(data)
        /\ AllPositive(data))
    => (~empty(df) /\ SameRows(df, data))

(***************************************************************************)
(* C2: a batch that passes the presence, null and type gates and has a row *)
(* with Current_Price <= 0 or Market_Cap <= 0 is rejected, also when every *)
(* row is out of range.  The code accepts a batch whose rows are all out   *)
(* of range.                                                               *)
(***************************************************************************)
C2_OutOfRangeBatchIsRejected ==
    (TransformReturned /\ Len(data) > 0 /\ AllPresent(data) /\ WellTyped(data)
        /\ \E i \in 1..Len(data) : OutOfRange(data[i]))
    => empty(df)

(***************************************************************************)
(* C3: in a run whose batch handed to transform_data has a row with        *)
(* market_cap <= 0, load_data is never called and the persisted table is   *)
(* the one the run found.                                                  *)
(***************************************************************************)
C3_NonPositiveCapNeverLoaded ==
    (Called("transform_data")
        /\ \E i \in 1..Len(data) : IsNumber(data[i]["market_cap"]) /\ data[i]["market_cap"].v <= 0)
    => (~Called("load_data") /\ store = store0)

(***************************************************************************)
(* C4: extract_data never raises; on a transport failure it logs the       *)
(* failure and returns an empty list, and etl_process takes its            *)
(* "extraction failed" branch.                                             *)
(***************************************************************************)
C4_ExtractNeverRaises ==
    /\ pc # "crashed"
    /\ ret.kind # "raise"
    /\ (stages = <<"extract_data">> /\ transport # "ok")
         => /\ ret = Returned("[]", <<>>)
            /\ data = <<>>
            /\ Logged("ERROR", "Error during the API request")
            /\ Logged("ERROR", "It was not possible to extract data.")
            /\ pc = "done"

(***************************************************************************)
(* C5: after a successful load_data the persisted table is exactly the     *)
(* table just loaded: no row of an earlier load or snapshot survives.      *)
(***************************************************************************)
C5_LoadReplacesTable ==
    (stages = <<"load_data">> /\ result.load_data = "ok")
    => /\ store = Table(df)
       /\ df = loads[Len(loads)]

\* Two successful loads in a row of tables with different rows: the table is the second.
C5_Witness ==
    /\ stages = <<"load_data">>
    /\ result.load_data = "ok"
    /\ Len(loads) = 2
    /\ store0 = Table(loads[1])
    /\ \E i \in 1..Len(loads[1]) : \A j \in 1..Len(loads[2]) : loads[1][i] # loads[2][j]
    /\ store = Table(loads[2])

(***************************************************************************)
(* C6: load_data on an empty table opens no connection, leaves the         *)
(* persisted table as it was, and ends in a way its caller can tell from a *)
(* successful load.  The code returns None both times.                     *)
(***************************************************************************)
C6_EmptyLoadSignalsFailure ==
    (stages = <<"load_data">> /\ pc = "returned" /\ empty(df))
    => /\ connects = 0
       /\ store = store0
       /\ \A t \in Tables \ {EmptyDF} : ret # load_data(t, store0, "none", TRUE).ret

(***************************************************************************)
(* C7: a non-empty batch with a required field absent from the whole batch *)
(* or null in some row is rejected, an error entry names every such field, *)
(* and neither validate_data_types nor validate_value_ranges is called.    *)
(***************************************************************************)
C7_MissingOrNullIsRejected ==
    (TransformReturned /\ Len(data) > 0 /\ Offending(data) # {})
    => /\ empty(df)
       /\ gates = <<>>
       /\ \E k \in 1..Len(log) :
            /\ log[k].level = "ERROR"
            /\ log[k].msg = "Missing or null values found in columns"
            /\ Offending(data) \subseteq {log[k].cols[j] : j \in 1..Len(log[k].cols)}

\* A rejected batch with one field absent from every row and another null in a row.
C7_Witness ==
    /\ TransformReturned
    /\ empty(df)
    /\ \E f \in RequiredFields, g \in RequiredFields :
         /\ f # g
         /\ \A i \in 1..Len(data) : data[i][f].t = "absent"
         /\ \E i \in 1..Len(data) : data[i][g].t = "null"
         /\ {f, g} \subseteq {log[1].cols[j] : j \in 1..Len(log[1].cols)}

C9_StagesGated ==
    /\ IsPrefix(stages, <<"extract_data", "transform_data", "load_data", "verify_data">>)
    /\ Called("transform_data") => Len(data) > 0
    /\ Called("load_data") => ~empty(df)
    /\ (Called("verify_data") \/ Logged("INFO", "ETL process completed."))
         => result.load_data = "ok"

(***************************************************************************)
(* C10: when load_data or verify_data has returned, no connection it       *)
(* opened is still open, also when the write or the read failed.           *)
(***************************************************************************)
C10_ConnectionsClosed ==
    pc = "returned" => openConns = 0

====
